---- MODULE Spec2Model ----
(***************************************************************************)
(* A model of bun-merkle-tree: the MerkleTree class (utils/MerkleTree.ts), *)
(* the hashing helpers and worker dispatchers (utils/helpers.ts) and the   *)
(* worker script (utils/worker.ts).                                        *)
(*                                                                         *)
(* Digests are modelled as terms of a free algebra written in prefix       *)
(* notation as sequences of naturals, so sha256 is collision-free by       *)
(* construction:                                                           *)
(*    <<r + 2>>            sha256 of the string of record r (r >= 1)       *)
(*    <<0>>                sha256 of the empty byte string                 *)
(*    <<1>> \o a           sha256 of the 32 bytes of digest a              *)
(*    <<2>> \o a \o b      sha256 of the 64 bytes of digests a, b          *)
(* The JavaScript value undefined is the empty sequence.  Arrays are       *)
(* sequences, read with the 0-based index of the source through At.        *)
(***************************************************************************)
EXTENDS Integers, Sequences, FiniteSets, TLC

\* Bounds of the model.
MaxLeaves == 5

\* Two record strings: a list can hold equal and different records.
Records == {1, 2}

\* JavaScript's undefined.
Undefined == <<>>

\* arr[i] of JavaScript: undefined outside 0 .. arr.length-1.
At(arr, i) == IF i >= 0 /\ i < Len(arr) THEN arr[i + 1] ELSE Undefined

\* a % b of JavaScript (b > 0): the result takes the sign of a.
JsRem(a, b) == IF a >= 0 THEN a % b ELSE -((-a) % b)

\* optional constructor properties: absent, or present with a value
None == <<>>
Some(v) == <<v>>

--------------------------------------------------------------------------
(* utils/helpers.ts *)

\* createHash("sha256").update(data).digest("hex") of a record's string
hashGeneric(data) == <<data + 2>>

\* Both branches map every record to the digest of its string.
hashData(type, data) == [i \in 1..Len(data) |-> hashGeneric(data[i])]

\* Buffer.from(left + right, "hex") decodes hex pairs and stops at the first
\* pair that is not hex: the text "undefined" of an undefined operand ends
\* the decoding, so the bytes are those of the digests before it.  (Two
\* undefined operands do not occur: every caller passes a leaf or a computed
\* hash as one of them.)
hashPair(left, right) ==
  IF left = Undefined THEN <<0>>
  ELSE IF right = Undefined THEN <<1>> \o left
  ELSE <<2>> \o left \o right

--------------------------------------------------------------------------
(* utils/MerkleTree.ts *)

\* MerkleTree.hashPair: the same computation as the helper
MerkleTree_hashPair(left, right) ==
  IF left = Undefined THEN <<0>>
  ELSE IF right = Undefined THEN <<1>> \o left
  ELSE <<2>> \o left \o right

\* mutant: the dangling last node is carried up as it is, not paired
RECURSIVE buildTree_layer_carry(_, _, _)
buildTree_layer_carry(currentLayer, i, newLayer) ==
  IF i < Len(currentLayer)
  THEN LET left == At(currentLayer, i)
       IN buildTree_layer_carry(currentLayer, i + 2,
            Append(newLayer,
                   IF i + 1 < Len(currentLayer)
                   THEN MerkleTree_hashPair(left, At(currentLayer, i + 1))
                   ELSE left))
  ELSE newLayer

\* the for loop of buildTree, from position i with newLayer built so far
RECURSIVE buildTree_layer(_, _, _)
buildTree_layer(currentLayer, i, newLayer) ==
  IF i < Len(currentLayer)
  THEN LET left == At(currentLayer, i)
           right == IF i + 1 < Len(currentLayer)
                    THEN At(currentLayer, i + 1) ELSE left
       IN buildTree_layer(currentLayer, i + 2,
                          Append(newLayer, MerkleTree_hashPair(left, right)))
  ELSE newLayer

\* mutant: the while loop stops at a layer of two
RECURSIVE buildTree_loop_early(_, _, _)
buildTree_loop_early(currentLayer, layers, pairHashes) ==
  IF Len(currentLayer) > 2
  THEN LET newLayer == buildTree_layer(currentLayer, 0, <<>>)
       IN buildTree_loop_early(newLayer, Append(layers, newLayer),
                               pairHashes + Len(newLayer))
  ELSE [layers |-> layers, pairHashes |-> pairHashes]

\* the while loop of buildTree; pairHashes counts the calls of hashPair
RECURSIVE buildTree_loop(_, _, _)
buildTree_loop(currentLayer, layers, pairHashes) ==
  IF Len(currentLayer) > 1
  THEN LET newLayer == buildTree_layer(currentLayer, 0, <<>>)
       IN buildTree_loop(newLayer, Append(layers, newLayer),
                         pairHashes + Len(newLayer))
  ELSE [layers |-> layers, pairHashes |-> pairHashes]

\* buildTree on this.leaves, this.layers = [this.leaves]
buildTree(leaves, layers) == buildTree_loop(leaves, layers, 0)

\* mutant: a layer where the node has no sibling adds no step to the proof
RECURSIVE getProof_loop_skip(_, _, _, _)
getProof_loop_skip(layers, i, currentIndex, proof) ==
  IF i < Len(layers) - 1
  THEN LET currentLayer == At(layers, i)
           isRightNode == JsRem(currentIndex, 2) = 1
           siblingIndex == IF isRightNode THEN currentIndex - 1
                                          ELSE currentIndex + 1
       IN getProof_loop_skip(layers, i + 1, currentIndex \div 2,
            IF siblingIndex < Len(currentLayer)
            THEN Append(proof,
                        [sibling |-> At(currentLayer, siblingIndex),
                         direction |-> IF isRightNode THEN "left" ELSE "right"])
            ELSE proof)
  ELSE proof

\* the for loop of getProof, at layer i with the proof built so far
RECURSIVE getProof_loop(_, _, _, _)
getProof_loop(layers, i, currentIndex, proof) ==
  IF i < Len(layers) - 1
  THEN LET currentLayer == At(layers, i)
           isRightNode == JsRem(currentIndex, 2) = 1
           siblingIndex == IF isRightNode THEN currentIndex - 1
                                          ELSE currentIndex + 1
           step == IF siblingIndex < Len(currentLayer)
                   THEN [sibling |-> At(currentLayer, siblingIndex),
                         direction |-> IF isRightNode THEN "left" ELSE "right"]
                   ELSE [sibling |-> At(currentLayer, currentIndex),
                         direction |-> "right"]
       IN getProof_loop(layers, i + 1, currentIndex \div 2, Append(proof, step))
  ELSE proof

\* MerkleTree.getProof(index) on a tree with these layers.  The method has no
\* throw statement and no operation that throws on arrays of strings.
getProof(layers, index) == getProof_loop(layers, 0, index, <<>>)

\* the for-of loop of verifyLeaf, from proof step s (1-based)
RECURSIVE verifyLeaf_loop(_, _, _)
verifyLeaf_loop(computedHash, proof, s) ==
  IF s <= Len(proof)
  THEN verifyLeaf_loop(IF proof[s].direction = "left"
                       THEN hashPair(proof[s].sibling, computedHash)
                       ELSE hashPair(computedHash, proof[s].sibling),
                       proof, s + 1)
  ELSE computedHash

\* mutant: "computedHash = root" returned, an assignment, truthy for a digest
verifyLeaf_assign(leaf, proof, root) == root # Undefined

\* MerkleTree.verifyLeaf(leaf, proof, root)
verifyLeaf(leaf, proof, root) == verifyLeaf_loop(leaf, proof, 1) = root

\* the for loop of verifyTree, from leaf i
RECURSIVE verifyTree_loop(_, _, _, _)
verifyTree_loop(tree, i, completed, errors) ==
  IF i < Len(tree.leaves)
  THEN LET leaf == At(tree.leaves, i)
           proof == getProof(tree.layers, i)
       IN IF ~verifyLeaf(leaf, proof, tree.root)
          THEN verifyTree_loop(tree, i + 1, completed, errors + 1)
          ELSE verifyTree_loop(tree, i + 1, completed + 1, errors)
  ELSE [status |-> errors = 0, completed |-> completed, errors |-> errors]

\* mutant: the loop returns at the first leaf that fails
RECURSIVE verifyTree_loop_stop(_, _, _, _)
verifyTree_loop_stop(tree, i, completed, errors) ==
  IF i < Len(tree.leaves) /\ errors = 0
  THEN IF ~verifyLeaf(At(tree.leaves, i), getProof(tree.layers, i), tree.root)
       THEN verifyTree_loop_stop(tree, i + 1, completed, errors + 1)
       ELSE verifyTree_loop_stop(tree, i + 1, completed + 1, errors)
  ELSE [status |-> errors = 0, completed |-> completed, errors |-> errors]

verifyTree_shortCircuit(tree) == verifyTree_loop_stop(tree, 0, 0, 0)

\* MerkleTree.verifyTree()
verifyTree(tree) == verifyTree_loop(tree, 0, 0, 0)

\* new MerkleTree({type, data, leaves, layers, root}): the object built, with
\* the number of leaf and pair hashes the constructor computed.  An array is
\* truthy even when empty; an absent property is falsy.
MerkleTree(props) ==
  IF props.leaves # None /\ props.layers # None /\ props.root # Undefined
  THEN [tree |-> [data |-> props.data, leaves |-> props.leaves[1],
                  layers |-> props.layers[1], root |-> props.root],
        path |-> "precomputed", leafHashes |-> 0, pairHashes |-> 0]
  ELSE LET leaves == hashData(props.type, props.data)
           built == buildTree(leaves, <<leaves>>)
       IN [tree |-> [data |-> props.data, leaves |-> leaves,
                     layers |-> built.layers,
                     root |-> At(At(built.layers, Len(built.layers) - 1), 0)],
           path |-> "fresh", leafHashes |-> Len(leaves),
           pairHashes |-> built.pairHashes]

\* MerkleTree.export()
export(tree) ==
  [root |-> tree.root,
   leaves |-> [k \in 1..Len(tree.leaves) |->
                 [index |-> k - 1, hash |-> tree.leaves[k],
                  data |-> At(tree.data, k - 1),
                  proof |-> getProof(tree.layers, k - 1)]]]

--------------------------------------------------------------------------
(* utils/worker.ts *)

\* the for loop of workerBuildTree, from position i
RECURSIVE workerBuildTree_layer(_, _, _)
workerBuildTree_layer(currentLayer, i, newLayer) ==
  IF i < Len(currentLayer)
  THEN LET left == At(currentLayer, i)
           right == IF i + 1 < Len(currentLayer)
                    THEN At(currentLayer, i + 1) ELSE left
       IN workerBuildTree_layer(currentLayer, i + 2,
                                Append(newLayer, hashPair(left, right)))
  ELSE newLayer

\* the while loop of workerBuildTree; pairHashes counts the calls of hashPair
RECURSIVE workerBuildTree_loop(_, _, _)
workerBuildTree_loop(currentLayer, layers, pairHashes) ==
  IF Len(currentLayer) > 1
  THEN LET newLayer == workerBuildTree_layer(currentLayer, 0, <<>>)
       IN workerBuildTree_loop(newLayer, Append(layers, newLayer),
                               pairHashes + Len(newLayer))
  ELSE [layers |-> layers, pairHashes |-> pairHashes]

\* workerBuildTree(leaves)
workerBuildTree(leaves) == workerBuildTree_loop(leaves, <<leaves>>, 0)

\* mutant: the worker's copy labels the step of a node without sibling "left"
RECURSIVE worker_getProof_loop_left(_, _, _, _)
worker_getProof_loop_left(layers, i, currentIndex, proof) ==
  IF i < Len(layers) - 1
  THEN LET currentLayer == At(layers, i)
           isRightNode == JsRem(currentIndex, 2) = 1
           siblingIndex == IF isRightNode THEN currentIndex - 1
                                          ELSE currentIndex + 1
           step == IF siblingIndex < Len(currentLayer)
                   THEN [sibling |-> At(currentLayer, siblingIndex),
                         direction |-> IF isRightNode THEN "left" ELSE "right"]
                   ELSE [sibling |-> At(currentLayer, currentIndex),
                         direction |-> "left"]
       IN worker_getProof_loop_left(layers, i + 1, currentIndex \div 2,
                                    Append(proof, step))
  ELSE proof

\* the for loop of the worker's getProof
RECURSIVE worker_getProof_loop(_, _, _, _)
worker_getProof_loop(layers, i, currentIndex, proof) ==
  IF i < Len(layers) - 1
  THEN LET currentLayer == At(layers, i)
           isRightNode == JsRem(currentIndex, 2) = 1
           siblingIndex == IF isRightNode THEN currentIndex - 1
                                          ELSE currentIndex + 1
           step == IF siblingIndex < Len(currentLayer)
                   THEN [sibling |-> At(currentLayer, siblingIndex),
                         direction |-> IF isRightNode THEN "left" ELSE "right"]
                   ELSE [sibling |-> At(currentLayer, currentIndex),
                         direction |-> "right"]
       IN worker_getProof_loop(layers, i + 1, currentIndex \div 2,
                               Append(proof, step))
  ELSE proof

\* getProof(index, layers) of the worker
worker_getProof(index, layers) == worker_getProof_loop(layers, 0, index, <<>>)

\* the for-of loop of the worker's verifyLeaf
RECURSIVE worker_verifyLeaf_loop(_, _, _)
worker_verifyLeaf_loop(computedHash, proof, s) ==
  IF s <= Len(proof)
  THEN worker_verifyLeaf_loop(IF proof[s].direction = "left"
                              THEN hashPair(proof[s].sibling, computedHash)
                              ELSE hashPair(computedHash, proof[s].sibling),
                              proof, s + 1)
  ELSE computedHash

\* verifyLeaf(leaf, proof, root) of the worker
worker_verifyLeaf(leaf, proof, root) ==
  worker_verifyLeaf_loop(leaf, proof, 1) = root

\* the for loop of handleValidate, from leaf i
RECURSIVE handleValidate_loop(_, _, _, _)
handleValidate_loop(merkleTree, i, completed, errors) ==
  IF i < Len(merkleTree.leaves)
  THEN LET leaf == At(merkleTree.leaves, i)
           proof == worker_getProof(i, merkleTree.layers)
           check == worker_verifyLeaf(leaf, proof, merkleTree.root)
       IN IF check
          THEN handleValidate_loop(merkleTree, i + 1, completed + 1, errors)
          ELSE handleValidate_loop(merkleTree, i + 1, completed, errors + 1)
  ELSE [type |-> "result", success |-> errors = 0,
        completed |-> completed, errors |-> errors]

\* handleValidate(merkleTree): the message it posts
handleValidate(merkleTree) == handleValidate_loop(merkleTree, 0, 0, 0)

\* handleGenerateMerkleBalances(data): the message posted, with the number
\* of leaf and pair hashes computed on the way
handleGenerateMerkleBalances(data) ==
  LET leaves == hashData("balances", data)
      built == workerBuildTree(leaves)
  IN [message |-> [type |-> "result", leaves |-> leaves,
                   layers |-> built.layers],
      leafHashes |-> Len(leaves), pairHashes |-> built.pairHashes]

\* handleExport(merkleTree, path): the object written to path
handleExport(merkleTree) ==
  [root |-> merkleTree.root,
   leaves |-> [k \in 1..Len(merkleTree.leaves) |->
                 [index |-> k - 1, hash |-> merkleTree.leaves[k],
                  data |-> At(merkleTree.data, k - 1),
                  proof |-> worker_getProof(k - 1, merkleTree.layers)]]]

--------------------------------------------------------------------------
(* The program: one caller thread that holds a tree, and the workers it    *)
(* creates.                                                                *)

VARIABLES
  pc,        \* the caller: "start", "ready", "await" (suspended), "rejected"
  tree,      \* the MerkleTree object the caller holds
  origin,    \* how the caller got it, and what the caller hashed for it
  call,      \* the caller's last call and its result
  pending,   \* the arguments of the dispatch the caller is suspended in
  worker,    \* the worker created last
  nWorkers,  \* the number of workers created so far
  toWorker,  \* the request posted to the worker, not yet handled
  toCaller,  \* the event queued for the caller, not yet handled
  disk       \* the export file

vars == <<pc, tree, origin, call, pending, worker, nWorkers, toWorker,
          toCaller, disk>>

\* sequential dispatches a behaviour may make
MaxWorkers == 3

NoTree == [data |-> <<>>, leaves |-> <<>>, layers |-> <<>>, root |-> Undefined]
NoOrigin == [via |-> "none", path |-> "none", leafHashes |-> 0, pairHashes |-> 0]
NoCall == [op |-> "none", index |-> 0, proof |-> <<>>, altered |-> 0,
           result |-> FALSE, threw |-> FALSE, completed |-> 0, errors |-> 0]
NoWorker == [id |-> 0, kind |-> "none", status |-> "none", received |-> 0,
             outcome |-> "none", leafHashes |-> 0, pairHashes |-> 0]
NoPending == [kind |-> "none", data |-> <<>>]

\* the record lists a caller may pass
DataInputs == UNION {[1..n -> Records] : n \in 0..MaxLeaves}

\* the record lists whose bundles a caller may pass
MaxBundleLeaves == 3
BundleInputs == UNION {[1..n -> Records] : n \in 1..MaxBundleLeaves}

\* the digests that occur in a tree, and one that occurs in none
TreeDigests(t) ==
  {t.layers[i][j] : <<i, j>> \in
     {<<i, j>> \in (1..Len(t.layers)) \X (1..MaxLeaves) : j <= Len(t.layers[i])}}
  \cup {<<0>>}

\* The bundles {leaves, layers, root} a caller may pass with data: the ones
\* of the tree of data, exact or changed in one place.
BundleKinds == {"exact", "root", "node", "dropTop", "extraLeaf", "noLayers",
                "shortData"}
Bundle(data, kind) ==
  LET t == MerkleTree([type |-> "generic", data |-> data, leaves |-> None,
                       layers |-> None, root |-> Undefined]).tree
      p == [type |-> "generic", data |-> t.data, leaves |-> Some(t.leaves),
            layers |-> Some(t.layers), root |-> t.root]
  IN CASE kind = "exact" -> p
       [] kind = "root" -> [p EXCEPT !.root = <<0>>]
       [] kind = "node" ->
            [p EXCEPT !.layers = Some([t.layers EXCEPT ![1][1] = <<0>>])]
       [] kind = "dropTop" ->
            [p EXCEPT !.layers = Some(SubSeq(t.layers, 1, Len(t.layers) - 1))]
       [] kind = "extraLeaf" ->
            [p EXCEPT !.leaves = Some(Append(t.leaves, <<0>>))]
       [] kind = "noLayers" -> [p EXCEPT !.layers = Some(<<>>)]
       [] kind = "shortData" -> [p EXCEPT !.data = Tail(t.data)]

Init ==
  /\ pc = "start"
  /\ tree = NoTree
  /\ origin = NoOrigin
  /\ call = NoCall
  /\ pending = NoPending
  /\ worker = NoWorker
  /\ nWorkers = 0
  /\ toWorker = None
  /\ toCaller = None
  /\ disk = None

\* the caller runs new MerkleTree(props) and keeps the object
Construct(props, via) ==
  LET built == MerkleTree(props)
  IN /\ tree' = built.tree
     /\ origin' = [via |-> via, path |-> built.path,
                   leafHashes |-> built.leafHashes,
                   pairHashes |-> built.pairHashes]

\* new MerkleTree({type, data}) called by the caller itself
NewFresh ==
  /\ pc = "start"
  /\ \E data \in DataInputs, type \in {"balances", "generic"} :
       Construct([type |-> type, data |-> data, leaves |-> None,
                  layers |-> None, root |-> Undefined], "direct")
  /\ pc' = "ready"
  /\ UNCHANGED <<call, pending, worker, nWorkers, toWorker, toCaller, disk>>

\* new MerkleTree({type, data, leaves, layers, root}) called by the caller
NewPrecomputed ==
  /\ pc = "start"
  /\ \E data \in BundleInputs, kind \in BundleKinds :
       Construct(Bundle(data, kind), "direct")
  /\ pc' = "ready"
  /\ UNCHANGED <<call, pending, worker, nWorkers, toWorker, toCaller, disk>>

\* the indices a caller may ask a proof for: the leaves' and some outside
ProofIndices == (-1)..Len(tree.leaves)

\* The caller's own calls are explored on the tree as constructed: a dispatch
\* of validation or export leaves the tree as it is.
Idle == pc = "ready" /\ worker.kind \in {"none", "build"}

\* tree.getProof(index) called by the caller
GetProof ==
  /\ Idle
  /\ \E index \in ProofIndices :
       call' = [NoCall EXCEPT !.op = "getProof", !.index = index,
                              !.proof = getProof(tree.layers, index)]
  /\ UNCHANGED <<pc, tree, origin, pending, worker, nWorkers, toWorker,
                 toCaller, disk>>

\* proof with the sibling of step s (1-based) replaced by digest d
AlterSibling(proof, s, d) == [proof EXCEPT ![s].sibling = d]

\* tree.verifyLeaf(leaf, proof, tree.root) called by the caller with the leaf
\* and the proof of the index asked last, the proof as returned
VerifyLeaf ==
  /\ Idle
  /\ call.op = "getProof"
  /\ call.index \in 0..(Len(tree.leaves) - 1)
  /\ call' = [call EXCEPT !.op = "verifyLeaf",
                !.result = verifyLeaf(At(tree.leaves, call.index), call.proof,
                                      tree.root)]
  /\ UNCHANGED <<pc, tree, origin, pending, worker, nWorkers, toWorker,
                 toCaller, disk>>

\* the same call with one sibling of the proof replaced by another digest
VerifyLeafAltered ==
  /\ Idle
  /\ call.op = "getProof"
  /\ call.index \in 0..(Len(tree.leaves) - 1)
  /\ \E s \in 1..Len(call.proof) :
       \E d \in TreeDigests(tree) \ {call.proof[s].sibling} :
         LET altered == AlterSibling(call.proof, s, d)
         IN call' = [call EXCEPT !.op = "verifyLeaf", !.proof = altered,
                       !.altered = s,
                       !.result = verifyLeaf(At(tree.leaves, call.index),
                                             altered, tree.root)]
  /\ UNCHANGED <<pc, tree, origin, pending, worker, nWorkers, toWorker,
                 toCaller, disk>>

\* tree.verifyTree() called by the caller
VerifyTree ==
  /\ Idle
  /\ LET r == verifyTree(tree)
     IN call' = [NoCall EXCEPT !.op = "verifyTree", !.result = r.status,
                               !.completed = r.completed, !.errors = r.errors]
  /\ UNCHANGED <<pc, tree, origin, pending, worker, nWorkers, toWorker,
                 toCaller, disk>>

--------------------------------------------------------------------------
(* utils/helpers.ts: the dispatchers.  Each creates a worker, posts one    *)
(* request, sets onmessage and onerror, and suspends the caller.           *)

NewWorker(kind) ==
  [NoWorker EXCEPT !.id = nWorkers + 1, !.kind = kind, !.status = "running"]

\* merkleTreeWorker(data, "balances") up to its await, from generateMerkleTree
merkleTreeWorker ==
  /\ pc = "start"
  /\ nWorkers < MaxWorkers
  /\ \E data \in DataInputs :
       /\ toWorker' = Some([type |-> "generateMerkleBalances", payload |-> data])
       /\ pending' = [kind |-> "build", data |-> data]
  /\ worker' = NewWorker("build")
  /\ nWorkers' = nWorkers + 1
  /\ pc' = "await"
  /\ call' = NoCall
  /\ UNCHANGED <<tree, origin, toCaller, disk>>

\* validateMerkleTree(merkleTree) up to its await
validateMerkleTree ==
  /\ pc = "ready"
  /\ nWorkers < MaxWorkers
  /\ toWorker' = Some([type |-> "validate", payload |-> tree])
  /\ pending' = [kind |-> "validate", data |-> <<>>]
  /\ worker' = NewWorker("validate")
  /\ nWorkers' = nWorkers + 1
  /\ pc' = "await"
  /\ call' = NoCall
  /\ UNCHANGED <<tree, origin, toCaller, disk>>

\* workerExport(merkleTree, path) up to its await
workerExport ==
  /\ pc = "ready"
  /\ nWorkers < MaxWorkers
  /\ toWorker' = Some([type |-> "export", payload |-> tree])
  /\ pending' = [kind |-> "export", data |-> <<>>]
  /\ worker' = NewWorker("export")
  /\ nWorkers' = nWorkers + 1
  /\ pc' = "await"
  /\ call' = NoCall
  /\ UNCHANGED <<tree, origin, toCaller, disk>>

--------------------------------------------------------------------------
(* utils/worker.ts: self.onmessage *)

Message(data) == Some([event |-> "message", data |-> data])

\* The worker handles the request: the handler of its type runs to its
\* postMessage.  Nothing in handleGenerateMerkleBalances or handleValidate
\* throws on well-typed data.
worker_onmessage ==
  /\ toWorker # None
  /\ worker.status = "running"
  /\ LET m == toWorker[1]
     IN \/ /\ m.type = "generateMerkleBalances"
           /\ LET r == handleGenerateMerkleBalances(m.payload)
              IN /\ toCaller' = Message(r.message)
                 /\ worker' = [worker EXCEPT !.received = @ + 1,
                                 !.status = "finished", !.outcome = "result",
                                 !.leafHashes = r.leafHashes,
                                 !.pairHashes = r.pairHashes]
           /\ disk' = disk
        \/ /\ m.type = "validate"
           /\ toCaller' = Message(handleValidate(m.payload))
           /\ worker' = [worker EXCEPT !.received = @ + 1,
                           !.status = "finished", !.outcome = "result"]
           /\ disk' = disk
        \/ \* handleExport: fs.writeFileSync succeeds
           /\ m.type = "export"
           /\ disk' = Some(handleExport(m.payload))
           /\ toCaller' = Message([type |-> "result", success |-> TRUE])
           /\ worker' = [worker EXCEPT !.received = @ + 1,
                           !.status = "finished", !.outcome = "result"]
        \/ \* handleExport: fs.writeFileSync throws (the path cannot be
           \* written); the catch block posts the error message
           /\ m.type = "export"
           /\ disk' = disk
           /\ toCaller' = Message([type |-> "error"])
           /\ worker' = [worker EXCEPT !.received = @ + 1,
                           !.status = "finished", !.outcome = "error"]
  /\ toWorker' = None
  /\ UNCHANGED <<pc, tree, origin, call, pending, nWorkers>>

\* The worker fails outside the try block of onmessage (its script does not
\* load): the request is never handled and the caller gets an error event.
worker_error ==
  /\ toWorker # None
  /\ worker.status = "running"
  /\ toWorker' = None
  /\ toCaller' = Some([event |-> "error", data |-> [type |-> "ErrorEvent"]])
  /\ worker' = [worker EXCEPT !.status = "finished", !.outcome = "uncaught"]
  /\ UNCHANGED <<pc, tree, origin, call, pending, nWorkers, disk>>

--------------------------------------------------------------------------
(* utils/helpers.ts: the caller's handlers and what follows the await *)

Terminated(w) == [w EXCEPT !.status = "terminated"]

\* worker.onmessage of merkleTreeWorker gets a result: the promise resolves,
\* the worker is terminated and the tree is constructed from
\* {type, data, leaves, layers}
merkleTreeWorker_result ==
  /\ pc = "await" /\ pending.kind = "build"
  /\ toCaller # None /\ toCaller[1].event = "message"
  /\ toCaller[1].data.type = "result"
  /\ worker' = Terminated(worker)
  /\ Construct([type |-> "balances", data |-> pending.data,
                leaves |-> Some(toCaller[1].data.leaves),
                layers |-> Some(toCaller[1].data.layers),
                root |-> Undefined], "dispatch")
  /\ call' = [NoCall EXCEPT !.op = "build", !.result = TRUE]
  /\ pc' = "ready"
  /\ pending' = NoPending
  /\ toCaller' = None
  /\ UNCHANGED <<nWorkers, toWorker, disk>>

\* worker.onmessage of validateMerkleTree gets a result
validateMerkleTree_result ==
  /\ pc = "await" /\ pending.kind = "validate"
  /\ toCaller # None /\ toCaller[1].event = "message"
  /\ toCaller[1].data.type = "result"
  /\ worker' = Terminated(worker)
  /\ call' = [NoCall EXCEPT !.op = "validate",
                !.result = toCaller[1].data.success,
                !.completed = toCaller[1].data.completed,
                !.errors = toCaller[1].data.errors]
  /\ pc' = "ready"
  /\ pending' = NoPending
  /\ toCaller' = None
  /\ UNCHANGED <<tree, origin, nWorkers, toWorker, disk>>

\* worker.onmessage of workerExport gets a result
workerExport_result ==
  /\ pc = "await" /\ pending.kind = "export"
  /\ toCaller # None /\ toCaller[1].event = "message"
  /\ toCaller[1].data.type = "result"
  /\ worker' = Terminated(worker)
  /\ call' = [NoCall EXCEPT !.op = "export",
                !.result = toCaller[1].data.success]
  /\ pc' = "ready"
  /\ pending' = NoPending
  /\ toCaller' = None
  /\ UNCHANGED <<tree, origin, nWorkers, toWorker, disk>>

\* worker.onmessage gets a message whose type is not "result": the handler
\* does nothing, the promise stays pending
onmessage_other ==
  /\ pc = "await"
  /\ toCaller # None /\ toCaller[1].event = "message"
  /\ toCaller[1].data.type # "result"
  /\ toCaller' = None
  /\ UNCHANGED <<pc, tree, origin, call, pending, worker, nWorkers, toWorker,
                 disk>>

\* worker.onerror: the promise is rejected, the await throws and the
\* dispatcher is left before worker.terminate()
onerror ==
  /\ pc = "await"
  /\ toCaller # None /\ toCaller[1].event = "error"
  /\ pc' = "rejected"
  /\ call' = [NoCall EXCEPT !.op = pending.kind, !.threw = TRUE]
  /\ pending' = NoPending
  /\ toCaller' = None
  /\ UNCHANGED <<tree, origin, worker, nWorkers, toWorker, disk>>

Next ==
  \/ NewFresh
  \/ NewPrecomputed
  \/ GetProof
  \/ VerifyLeaf
  \/ VerifyLeafAltered
  \/ VerifyTree
  \/ merkleTreeWorker
  \/ validateMerkleTree
  \/ workerExport
  \/ worker_onmessage
  \/ worker_error
  \/ merkleTreeWorker_result
  \/ validateMerkleTree_result
  \/ workerExport_result
  \/ onmessage_other
  \/ onerror

Spec == Init /\ [][Next]_vars

--------------------------------------------------------------------------
(* Properties *)

\* sha256 of the 64 bytes of digest l followed by digest r
PairDigest(l, r) == <<2>> \o l \o r

\* the caller holds a tree constructed by hashing records
Fresh == pc = "ready" /\ origin.path = "fresh"

\* the layers of the Build response on its way to the caller
BuildResponse ==
  /\ toCaller # None /\ toCaller[1].event = "message"
  /\ toCaller[1].data.type = "result" /\ worker.kind = "build"

\* C1: on a tree built from records, the proof getProof returns for a leaf
\* index verifies that leaf against the root, the last leaf of an odd-length
\* layer (self-paired, direction right) included.
C1_ProofVerifies ==
  (Fresh /\ call.op = "verifyLeaf" /\ call.altered = 0) => call.result = TRUE

\* the last of five leaves verified: self-paired at layers 0 and 1
C1_Witness ==
  /\ Fresh /\ call.op = "verifyLeaf" /\ call.altered = 0
  /\ Len(tree.leaves) = 5 /\ call.index = 4
  /\ call.proof[1] = [sibling |-> tree.leaves[5], direction |-> "right"]
  /\ call.proof[2].direction = "right"
  /\ call.proof[3].direction = "left"
  /\ call.result = TRUE

\* every node above the leaves is the pair digest of its two children, or of
\* its only child with itself
Linked(layers) ==
  \A i \in 0..(Len(layers) - 2) :
    LET lower == At(layers, i)
        upper == At(layers, i + 1)
    IN \A j \in 0..(Len(upper) - 1) :
         At(upper, j) = IF 2 * j + 1 < Len(lower)
                        THEN PairDigest(At(lower, 2 * j), At(lower, 2 * j + 1))
                        ELSE PairDigest(At(lower, 2 * j), At(lower, 2 * j))

\* C2: in the layers built by the constructor and in those built by the
\* worker, layers[i+1][j] is hashPair(layers[i][2j], layers[i][2j+1]) when
\* 2j+1 is in layer i, and hashPair(layers[i][2j], layers[i][2j]) otherwise.
C2_LayersLinked ==
  /\ Fresh => Linked(tree.layers)
  /\ BuildResponse => Linked(toCaller[1].data.layers)

\* three leaves: the node at index 1 of layer 1 is hashPair(leaf2, leaf2)
C2_Witness ==
  /\ Fresh /\ Len(tree.leaves) = 3 /\ Len(tree.layers) = 3
  /\ tree.leaves[1] # tree.leaves[3]
  /\ tree.layers[2][2] = PairDigest(tree.leaves[3], tree.leaves[3])

\* the least k with 2^k >= n, for n >= 1
CeilLog2(n) == CHOOSE k \in 0..n : 2 ^ k >= n /\ (k = 0 \/ 2 ^ (k - 1) < n)

LayerCount(leaves, layers, root, pairHashes) ==
  Len(leaves) >= 1 =>
    /\ Len(layers) = CeilLog2(Len(leaves)) + 1
    /\ Len(At(layers, Len(layers) - 1)) = 1
    /\ Len(leaves) = 1 =>
         (layers = <<leaves>> /\ root = leaves[1] /\ pairHashes = 0)

\* C4: built from a non-empty list of leaves, the layers end in a layer of
\* one element and there are ceil(log2(len)) + 1 of them; one leaf gives one
\* layer, the leaf is the root and no pair is hashed.  For the constructor
\* and for the worker's build.
C4_LayerCount ==
  /\ Fresh => LayerCount(tree.leaves, tree.layers, tree.root, origin.pairHashes)
  /\ BuildResponse =>
       LayerCount(toCaller[1].data.leaves, toCaller[1].data.layers,
                  At(At(toCaller[1].data.layers,
                        Len(toCaller[1].data.layers) - 1), 0),
                  worker.pairHashes)

\* five leaves make four layers
C4_Witness ==
  /\ Fresh /\ Len(tree.leaves) = 5 /\ Len(tree.layers) = 4
  /\ Len(tree.layers[4]) = 1 /\ origin.pairHashes = 6

\* one leaf makes one layer
C4_WitnessSingle ==
  /\ Fresh /\ Len(tree.leaves) = 1 /\ tree.layers = <<tree.leaves>>
  /\ tree.root = tree.leaves[1]

\* C3: when a worker task throws, the worker posts a failure message and
\* the caller suspended on that task resumes with a failure outcome: once
\* the failure message has been handled by the caller, the caller is no
\* longer suspended.
C3_FailureResumesCaller ==
  (worker.outcome = "error" /\ toCaller = None) =>
    (pc # "await" /\ call.op = worker.kind /\ call.result = FALSE)

\* C5: getProof fails for every index outside 0 .. len(leaves)-1 and returns
\* no proof for it.
C5_IndexOutOfRangeFails ==
  (call.op = "getProof" /\ call.index \notin 0..(Len(tree.leaves) - 1)) =>
    call.threw

\* C6: on a tree built from records, the proof of a leaf with the sibling of
\* one step replaced by a different digest does not verify that leaf.
C6_AlteredProofFails ==
  (Fresh /\ call.op = "verifyLeaf" /\ call.altered # 0) => call.result = FALSE

\* the self-paired first step of the last of five leaves, altered
C6_Witness ==
  /\ Fresh /\ call.op = "verifyLeaf" /\ call.altered = 1
  /\ Len(tree.leaves) = 5 /\ call.index = 4
  /\ call.proof[1].sibling # tree.leaves[5]
  /\ call.proof[1].sibling \in {tree.leaves[k] : k \in 1..5}
  /\ call.result = FALSE

\* C7: the tree a Build dispatch returns is constructed from the worker's
\* leaves and layers through the precomputed path; the caller hashes nothing.
C7_CallerHashesNothing ==
  (pc = "ready" /\ origin.via = "dispatch") =>
    /\ origin.path = "precomputed"
    /\ origin.leafHashes = 0
    /\ origin.pairHashes = 0

\* C8: a worker gets one request, and once its task has finished and its
\* response or error has been handled by the caller, it is terminated.
C8_WorkerTerminated ==
  /\ worker.received <= 1
  /\ (worker.status # "none" /\ toWorker = None /\ toCaller = None) =>
       worker.status = "terminated"

Ceil2(n) == (n + 1) \div 2

Structural(t) ==
  /\ Len(t.layers) >= 1
  /\ Len(At(t.layers, 0)) = Len(t.data)
  /\ \A i \in 0..(Len(t.layers) - 2) :
       Len(At(t.layers, i + 1)) = Ceil2(Len(At(t.layers, i)))
  /\ Len(At(t.layers, Len(t.layers) - 1)) = 1
  /\ At(At(t.layers, Len(t.layers) - 1), 0) = t.root

\* C9: every tree the constructor returns, fresh (also from no records) or
\* from a bundle, has one leaf per record, layers that halve rounding up,
\* and a last layer of one element, the root.
C9_Structural == pc = "ready" => Structural(tree)

\* the leaf indices whose proof does not verify against the root
Failing(t) ==
  {k \in 0..(Len(t.leaves) - 1) :
     ~verifyLeaf(At(t.leaves, k), getProof(t.layers, k), t.root)}

\* C10: verifyTree, and the worker's validation, check every leaf and do not
\* fail: passed + failed is the number of leaves, failed is the number of
\* leaves whose proof does not verify, valid is failed = 0.
C10_VerifyTreeCounts ==
  (call.op \in {"verifyTree", "validate"} /\ pc = "ready") =>
    /\ ~call.threw
    /\ call.completed + call.errors = Len(tree.leaves)
    /\ call.errors = Cardinality(Failing(tree))
    /\ call.result = (call.errors = 0)

\* a tree with a changed node: one leaf of three fails, the others are counted
C10_Witness ==
  /\ pc = "ready" /\ call.op = "verifyTree" /\ origin.path = "precomputed"
  /\ Len(tree.leaves) = 3
  /\ call.errors = 1 /\ call.completed = 2 /\ call.result = FALSE

\* C11: the worker's copies compute what the class computes: workerBuildTree
\* gives the layers the constructor builds from the same leaves; the worker's
\* getProof and verifyLeaf give the results of MerkleTree.getProof and
\* MerkleTree.verifyLeaf on the same tree, index and proof; the counts
\* handleValidate posts are those of MerkleTree.verifyTree.
C11_WorkerMatchesClass ==
  /\ BuildResponse =>
       toCaller[1].data.layers =
         buildTree(toCaller[1].data.leaves, <<toCaller[1].data.leaves>>).layers
  /\ Fresh => workerBuildTree(tree.leaves).layers = tree.layers
  /\ call.op = "getProof" =>
       worker_getProof(call.index, tree.layers) = call.proof
  /\ call.op = "verifyLeaf" =>
       worker_verifyLeaf(At(tree.leaves, call.index), call.proof, tree.root)
         = call.result
  /\ (call.op = "validate" /\ pc = "ready") =>
       LET r == verifyTree(tree)
       IN /\ call.result = r.status
          /\ call.completed = r.completed
          /\ call.errors = r.errors
  /\ call.op = "verifyTree" =>
       LET m == handleValidate(tree)
       IN /\ m.success = call.result
          /\ m.completed = call.completed
          /\ m.errors = call.errors

\* the worker has validated a tree with a changed node: one leaf of three
\* fails, as verifyTree finds on the caller's tree
C11_Witness ==
  /\ pc = "ready" /\ call.op = "validate" /\ origin.path = "precomputed"
  /\ Len(tree.leaves) = 3
  /\ call.errors = 1 /\ call.completed = 2 /\ call.result = FALSE
  /\ verifyTree(tree).errors = 1

====
